---- MODULE Spec2Model ----
(***************************************************************************)
(* Model of src/src/gee_data_download_temporal.py: the monthly Sentinel-2  *)
(* downloader.  get_sentinel2_monthly is a sequential routine that blocks  *)
(* on the remote image service between steps; every step of it is one      *)
(* action.  The remote catalog, the input file and the two dates are       *)
(* inputs fixed by Init; a remote call may also raise at any query.        *)
(***************************************************************************)
EXTENDS Integers, Sequences, FiniteSets, TLC

VARIABLES
    readable,       \* gpd.read_file succeeds on the input path
    gdf,            \* the records of the input file, in file order
    has_label_col,  \* label_col in gdf.columns
    start,          \* pd.to_datetime(start_date)
    end,            \* pd.to_datetime(end_date)
    catalog,        \* remote image catalog: images passing the cloud filter
    pc,             \* position of get_sentinel2_monthly / split run
    gdf_points,     \* records kept for processing, each with its index
    row,            \* position of the geometry loop in gdf_points
    ee_geoms,       \* tiles of the current record
    properties,     \* properties attached to the current record's features
    tile,           \* position of the tile loop in ee_geoms
    current,        \* start of the next window of the current tile
    all_samples,    \* accumulated batches (one DataFrame per sampled query)
    queries,        \* every image-catalog query issued, in order
    log,            \* logger / tqdm messages, in order
    output_file,    \* the CSV: written flag and rows
    exc,            \* exception caught at line 150 ("None" when none)
    polygon,        \* argument of a split_polygon_grid run
    max_cells,      \* argument of a split_polygon_grid run
    small_polys     \* result of a split_polygon_grid run

vars == <<readable, gdf, has_label_col, start, end, catalog, pc, gdf_points,
          row, ee_geoms, properties, tile, current, all_samples, queries,
          log, output_file, exc, polygon, max_cells, small_polys>>

(***************************************************************************)
(* Bounds of the model.                                                    *)
(***************************************************************************)
MaxRecords == 2      \* records in the input file
LastEndMonth == 4    \* last month (of 2022) an end date is drawn from
GridW == 5           \* widest polygon, in unit squares
GridH == 3           \* tallest polygon, in unit squares
MaxCells == 2        \* largest max_cells given to a split run

(***************************************************************************)
(* Calendar: a Timestamp at midnight is <<year, month, day>>.              *)
(***************************************************************************)
MinOf(a, b) == IF a <= b THEN a ELSE b

IsLeap(y) == (y % 4 = 0 /\ y % 100 # 0) \/ y % 400 = 0

DaysInMonth(y, m) ==
    IF m = 2 THEN (IF IsLeap(y) THEN 29 ELSE 28)
    ELSE IF m \in {4, 6, 9, 11} THEN 30 ELSE 31

\* t + relativedelta(months=1): next month, the day clipped to its length
relativedelta_months(t) ==
    LET y == IF t[2] = 12 THEN t[1] + 1 ELSE t[1]
        m == IF t[2] = 12 THEN 1 ELSE t[2] + 1
    IN  <<y, m, MinOf(t[3], DaysInMonth(y, m))>>

\* t - pd.Timedelta(days=1)
Timedelta_days(t) ==
    IF t[3] > 1 THEN <<t[1], t[2], t[3] - 1>>
    ELSE IF t[2] > 1 THEN <<t[1], t[2] - 1, DaysInMonth(t[1], t[2] - 1)>>
    ELSE <<t[1] - 1, 12, 31>>

\* Timestamp comparison a < b
DateLT(a, b) ==
    \/ a[1] < b[1]
    \/ a[1] = b[1] /\ a[2] < b[2]
    \/ a[1] = b[1] /\ a[2] = b[2] /\ a[3] < b[3]

\* strftime('%Y-%m-%d') and strftime('%Y-%m')
strftime_ymd(t) == <<t[1], t[2], t[3]>>
strftime_ym(t) == <<t[1], t[2]>>

\* month_end_of without the day taken off: the window runs to the next start
month_end_of_whole_month(month_start, e) ==
    LET me == relativedelta_months(month_start)
    IN  IF DateLT(e, me) THEN e ELSE me

\* month_end of the window starting at month_start (lines 113-115)
month_end_of(month_start, e) ==
    LET me == Timedelta_days(relativedelta_months(month_start))
    IN  IF DateLT(e, me) THEN e ELSE me

(***************************************************************************)
(* Geometry.  A polygon is a finite set of unit squares <<x, y>>, the      *)
(* square [x, x+1] x [y, y+1]; squares sharing an edge are connected.      *)
(* Grid cells are computed in units of 1/max_cells, where every step of    *)
(* np.linspace over the bounds is an integer.                              *)
(***************************************************************************)
MinSet(S) == CHOOSE a \in S : \A b \in S : a <= b
MaxSet(S) == CHOOSE a \in S : \A b \in S : b <= a

\* polygon.bounds
bounds(p) ==
    [minx |-> MinSet({c[1] : c \in p}), miny |-> MinSet({c[2] : c \in p}),
     maxx |-> MaxSet({c[1] : c \in p}) + 1, maxy |-> MaxSet({c[2] : c \in p}) + 1]

\* np.linspace(lo, hi, n + 1)[i], in units of 1/n
linspace(lo, hi, n, i) == n * lo + i * (hi - lo)

\* the polygon in units of 1/n: every unit square becomes n x n squares
Refine(p, n) ==
    UNION {{<<n * c[1] + d[1], n * c[2] + d[2]>> : d \in (0 .. n - 1) \X (0 .. n - 1)} : c \in p}

\* shapely.geometry.box(minx, miny, maxx, maxy)
box(x0, y0, x1, y1) == [x0 |-> x0, y0 |-> y0, x1 |-> x1, y1 |-> y1]

\* the four squares that meet at lattice point q
Around(q) == {<<q[1] - 1, q[2] - 1>>, <<q[1], q[2] - 1>>, <<q[1] - 1, q[2]>>, <<q[1], q[2]>>}

\* polygon.intersection(b) of the refined polygon with a closed box: the
\* squares of the polygon inside the box (area), and the parts of the box's
\* boundary that the polygon touches only from outside (lower: edges, points)
intersection(fine, b) ==
    LET area == {c \in fine : b.x0 <= c[1] /\ c[1] < b.x1 /\ b.y0 <= c[2] /\ c[2] < b.y1}
        touched(adj) == adj \cap fine # {} /\ adj \cap area = {}
        points == {q \in (b.x0 .. b.x1) \X (b.y0 .. b.y1) : touched(Around(q))}
        vedges == {e \in {b.x0, b.x1} \X (b.y0 .. b.y1 - 1) :
                      touched({<<e[1] - 1, e[2]>>, <<e[1], e[2]>>})}
        hedges == {e \in (b.x0 .. b.x1 - 1) \X {b.y0, b.y1} :
                      touched({<<e[1], e[2] - 1>>, <<e[1], e[2]>>})}
    IN  [area |-> area,
         lower |-> {<<"point", q>> : q \in points}
                   \cup {<<"vedge", e>> : e \in vedges}
                   \cup {<<"hedge", e>> : e \in hedges}]

\* inter.is_empty
is_empty(inter) == inter.area = {} /\ inter.lower = {}

Neighbours(c) == {<<c[1] + 1, c[2]>>, <<c[1] - 1, c[2]>>, <<c[1], c[2] + 1>>, <<c[1], c[2] - 1>>}

RECURSIVE Flood(_, _)
Flood(region, S) ==
    LET grown == region \cup {c \in S : Neighbours(c) \cap region # {}}
    IN  IF grown = region THEN region ELSE Flood(grown, S)

\* list(inter.geoms): the connected fragments of an area
RECURSIVE geoms(_)
geoms(S) ==
    IF S = {} THEN <<>>
    ELSE LET seed == CHOOSE c \in S : \A d \in S : c[1] < d[1] \/ (c[1] = d[1] /\ c[2] <= d[2])
             part == Flood({seed}, S)
         IN  <<part>> \o geoms(S \ part)

\* inter.geom_type (the Multi* variants of the lower-dimensional types are
\* not told apart: the code tests for "Polygon" and "MultiPolygon" only)
geom_type(inter) ==
    IF inter.area # {} /\ inter.lower # {} THEN "GeometryCollection"
    ELSE IF inter.area # {} THEN (IF Len(geoms(inter.area)) = 1 THEN "Polygon" ELSE "MultiPolygon")
    ELSE IF \E m \in inter.lower : m[1] # "point" THEN "LineString"
    ELSE "Point"

\* the cell (i, j) of the grid (line 57)
Cell(p, n, i, j) ==
    LET bb == bounds(p)
    IN  box(linspace(bb.minx, bb.maxx, n, i), linspace(bb.miny, bb.maxy, n, j),
            linspace(bb.minx, bb.maxx, n, i + 1), linspace(bb.miny, bb.maxy, n, j + 1))

\* CellPolys with append in place of extend: a MultiPolygon is kept whole
CellPolys_append(p, n, i, j) ==
    LET inter == intersection(Refine(p, n), Cell(p, n, i, j))
    IN  IF is_empty(inter) THEN <<>>
        ELSE IF geom_type(inter) \in {"Polygon", "MultiPolygon"} THEN <<inter.area>>
        ELSE <<>>

\* what one cell appends to small_polys (lines 57-63)
CellPolys(p, n, i, j) ==
    LET inter == intersection(Refine(p, n), Cell(p, n, i, j))
    IN  IF is_empty(inter) THEN <<>>
        ELSE IF geom_type(inter) = "Polygon" THEN <<inter.area>>
        ELSE IF geom_type(inter) = "MultiPolygon" THEN geoms(inter.area)
        ELSE <<>>

\* the loops over i and j from cell number k on (k = i * n + j)
RECURSIVE SplitFrom(_, _, _)
SplitFrom(p, n, k) ==
    IF k >= n * n THEN <<>>
    ELSE CellPolys(p, n, k \div n, k % n) \o SplitFrom(p, n, k + 1)

split_polygon_grid(p, n) == SplitFrom(p, n, 0)

\* input polygons: columns of unit squares standing on a common base line,
\* column x holding h[x + 1] squares (rectangles, L, U and comb shapes);
\* the columns are one square, two squares or GridH squares high
Skyline(h) == {c \in (0 .. Len(h) - 1) \X (0 .. GridH - 1) : c[2] < h[c[1] + 1]}
Shapes == {Skyline(h) : h \in UNION {[1 .. w -> {1, 2, GridH}] : w \in 1 .. GridW}}

(***************************************************************************)
(* Inputs of a run of get_sentinel2_monthly.                               *)
(***************************************************************************)
NULL == "null"
Labels == {"forest", "water"}
label_col == "landcover"

\* max_cells passed at line 99
max_cells_default == 4

PolygonInputs == {Skyline(<<1>>)}

\* the records of a file: geometry type, geometry (polygons only), label
RecordsWith(types, labels) ==
    {[geom_type |-> g, geometry |-> {}, label |-> l] :
        g \in types \ {"Polygon"}, l \in labels}
    \cup {[geom_type |-> "Polygon", geometry |-> s, label |-> l] :
        s \in (IF "Polygon" \in types THEN PolygonInputs ELSE {}), l \in labels}

SeqsUpTo(S, n) == UNION {[1 .. k -> S] : k \in 0 .. n}

StartDates == {<<2021, 12, 15>>, <<2022, 1, 1>>, <<2022, 1, 15>>, <<2022, 1, 31>>}
EndDates == {<<2022, m, d>> : m \in 1 .. LastEndMonth, d \in {1, 15}}

\* an image of the catalog: acquisition date, and whether its pixels over
\* the sampled geometries are unmasked
Catalogs ==
    {c \in SUBSET {[date |-> d, valid |-> v] : d \in {<<2022, 1, 20>>, <<2022, 2, 20>>},
                                              v \in BOOLEAN} :
        \A a, b \in c : a.date = b.date => a = b}

NoFile == [written |-> FALSE, rows |-> <<>>]

\* files of points and lines under every labelling, two windows
InputLabels ==
    /\ readable = TRUE
    /\ has_label_col \in BOOLEAN
    /\ gdf \in SeqsUpTo(RecordsWith({"Point", "LineString"},
                                    IF has_label_col THEN Labels \cup {NULL} ELSE {NULL}),
                        MaxRecords)
    /\ start = <<2022, 1, 15>>
    /\ end = <<2022, 3, 1>>

\* files of every geometry type, two windows
InputGeometries ==
    /\ readable = TRUE
    /\ has_label_col \in BOOLEAN
    /\ gdf \in SeqsUpTo(RecordsWith({"Point", "Polygon", "LineString", "MultiPolygon"},
                                    IF has_label_col THEN {"forest"} ELSE {NULL}),
                        MaxRecords)
    /\ start = <<2022, 1, 15>>
    /\ end = <<2022, 3, 1>>

\* one point over every pair of dates
InputDates ==
    /\ readable = TRUE
    /\ has_label_col \in BOOLEAN
    /\ gdf \in {<<[geom_type |-> "Point", geometry |-> {},
                  label |-> IF has_label_col THEN "forest" ELSE NULL]>>}
    /\ start \in StartDates
    /\ end \in EndDates

\* a file that cannot be read
InputUnreadable ==
    /\ readable = FALSE
    /\ has_label_col = FALSE
    /\ gdf = <<>>
    /\ start = <<2022, 1, 15>>
    /\ end = <<2022, 3, 1>>

Init ==
    /\ InputLabels \/ InputGeometries \/ InputDates \/ InputUnreadable
    /\ catalog \in Catalogs
    /\ pc = "start"
    /\ gdf_points = <<>>
    /\ row = 0
    /\ ee_geoms = <<>>
    /\ properties = {}
    /\ tile = 0
    /\ current = start
    /\ all_samples = <<>>
    /\ queries = <<>>
    /\ log = <<>>
    /\ output_file = NoFile
    /\ exc = "None"
    /\ polygon = {}
    /\ max_cells = 0
    /\ small_polys = <<>>

(***************************************************************************)
(* loading_data and the head of get_sentinel2_monthly (lines 32-89).       *)
(***************************************************************************)
Msg(level, text) == [level |-> level, text |-> text]

\* the except clause at lines 150-151: the exception is logged, the
\* function returns
Caught(e) ==
    /\ exc' = e
    /\ log' = Append(log, Msg("error", e))
    /\ pc' = "done"

\* gdf[label_col].isnull().all(), or no such column (line 76)
Inference == ~has_label_col \/ \A i \in 1 .. Len(gdf) : gdf[i].label = NULL

\* the rows of gdf with their index labels (0-based positions in the file)
Indexed == [i \in 1 .. Len(gdf) |-> [idx |-> i - 1, rec |-> gdf[i]]]

\* gdf.dropna(subset=[label_col]): the rows whose label is not null
RECURSIVE dropna_rows(_)
dropna_rows(rows) ==
    IF rows = <<>> THEN <<>>
    ELSE (IF Head(rows).rec.label # NULL THEN <<Head(rows)>> ELSE <<>>)
         \o dropna_rows(Tail(rows))

dropna == dropna_rows(Indexed)

\* SelectPoints without the dropna of the labelled mode
SelectPoints_unfiltered == Indexed

\* gdf_points (lines 76-81)
SelectPoints == IF Inference THEN Indexed ELSE dropna

LoadReadError ==
    /\ pc = "start"
    /\ ~readable
    /\ Caught("RuntimeError")
    /\ UNCHANGED <<readable, gdf, has_label_col, start, end, catalog, gdf_points, row,
                   ee_geoms, properties, tile, current, all_samples, queries,
                   output_file, polygon, max_cells, small_polys>>

\* LoadEmpty without the raise of line 39: the empty table goes on
LoadEmpty_proceeds ==
    /\ pc = "start"
    /\ readable
    /\ gdf = <<>>
    /\ gdf_points' = <<>>
    /\ row' = 1
    /\ pc' = "rows"
    /\ log' = log \o <<Msg("success", "loaded"), Msg("info", "columns")>>
    /\ UNCHANGED <<readable, gdf, has_label_col, start, end, catalog, ee_geoms, properties,
                   tile, current, all_samples, queries, output_file, exc, polygon,
                   max_cells, small_polys>>

LoadEmpty ==
    /\ pc = "start"
    /\ readable
    /\ gdf = <<>>
    /\ Caught("ValueError")
    /\ UNCHANGED <<readable, gdf, has_label_col, start, end, catalog, gdf_points, row,
                   ee_geoms, properties, tile, current, all_samples, queries,
                   output_file, polygon, max_cells, small_polys>>

LoadOk ==
    /\ pc = "start"
    /\ readable
    /\ gdf # <<>>
    /\ gdf_points' = SelectPoints
    /\ log' = log \o <<Msg("success", "loaded"), Msg("info", "columns")>>
                  \o (IF Inference THEN <<Msg("info", "no labels")>> ELSE <<>>)
                  \o (IF SelectPoints = <<>> THEN <<Msg("warning", "no valid points")>> ELSE <<>>)
    /\ pc' = IF SelectPoints = <<>> THEN "done" ELSE "rows"
    /\ row' = 1
    /\ all_samples' = <<>>
    /\ UNCHANGED <<readable, gdf, has_label_col, start, end, catalog, ee_geoms, properties,
                   tile, current, queries, output_file, exc, polygon, max_cells,
                   small_polys>>

(***************************************************************************)
(* The geometry loop (lines 91-105).                                       *)
(***************************************************************************)
AtRow == pc = "rows" /\ row <= Len(gdf_points)

\* properties of the record's features (line 105)
PropertiesOf(r) ==
    IF has_label_col /\ r.label # NULL THEN {<<label_col, r.label>>} ELSE {}

\* ee_geoms is set, and the tile loop entered: current = start (line 109)
\* runs at the head of the first tile, when there is one
EnterTiles(tiles) ==
    /\ ee_geoms' = tiles
    /\ properties' = PropertiesOf(gdf_points[row].rec)
    /\ tile' = 1
    /\ current' = IF tiles # <<>> THEN start ELSE current
    /\ pc' = "window"
    /\ UNCHANGED <<readable, gdf, has_label_col, start, end, catalog, gdf_points, row,
                   all_samples, queries, log, output_file, exc, polygon, max_cells,
                   small_polys>>

RowPoint ==
    /\ AtRow
    /\ gdf_points[row].rec.geom_type = "Point"
    /\ EnterTiles(<<[type |-> "Point", area |-> {}]>>)

RowPolygon ==
    /\ AtRow
    /\ gdf_points[row].rec.geom_type = "Polygon"
    /\ LET polys == split_polygon_grid(gdf_points[row].rec.geometry, max_cells_default)
       IN  EnterTiles([k \in 1 .. Len(polys) |-> [type |-> "Polygon", area |-> polys[k]]])

\* RowUnsupported raising in place of the warning and continue
RowUnsupported_raise ==
    /\ pc = "rows" /\ row <= Len(gdf_points)
    /\ gdf_points[row].rec.geom_type \notin {"Point", "Polygon"}
    /\ ee_geoms' = <<>>
    /\ Caught("ValueError")
    /\ UNCHANGED <<readable, gdf, has_label_col, start, end, catalog, gdf_points, row,
                   properties, tile, current, all_samples, queries,
                   output_file, polygon, max_cells, small_polys>>

\* any other geometry type: ee_geoms is reset (line 94), the warning is
\* logged and the row is skipped (lines 101-103)
RowUnsupported ==
    /\ AtRow
    /\ gdf_points[row].rec.geom_type \notin {"Point", "Polygon"}
    /\ ee_geoms' = <<>>
    /\ log' = Append(log, Msg("warning", <<"not supported", gdf_points[row].idx>>))
    /\ row' = row + 1
    /\ UNCHANGED <<readable, gdf, has_label_col, start, end, catalog, pc, gdf_points,
                   properties, tile, current, all_samples, queries,
                   output_file, exc, polygon, max_cells, small_polys>>

(***************************************************************************)
(* The tile loop and the window loop (lines 107-141).                      *)
(***************************************************************************)
AtWindow == pc = "window" /\ tile <= Len(ee_geoms) /\ DateLT(current, end)

\* the query built at lines 119-124 for the window starting at current
Query ==
    [idx |-> gdf_points[row].idx,
     tile |-> tile,
     month_start |-> strftime_ymd(current),
     month_end |-> strftime_ymd(month_end_of(current, end)),
     properties |-> properties]

\* filterDate(a, b): the images acquired in [a, b)
filterDate(images, a, b) == {im \in images : ~DateLT(im.date, a) /\ DateLT(im.date, b)}

Images(q) == filterDate(catalog, q.month_start, q.month_end)

\* pixels of a geometry at the sampling scale
Pixels(geom) == IF geom.type = "Point" THEN 1 ELSE Cardinality(geom.area)

\* geemap.ee_to_df(sampleRegions(...)) with geometry_idx and month added
\* (lines 135-138): one row per unmasked pixel
SampleDf(q, geom) ==
    LET n == IF \E im \in Images(q) : im.valid THEN Pixels(geom) ELSE 0
    IN  [k \in 1 .. n |-> [geometry_idx |-> q.idx,
                           month |-> strftime_ym(current),
                           properties |-> q.properties]]

\* pd.concat(all_samples, ignore_index=True) (line 144)
RECURSIVE concat(_)
concat(dfs) == IF dfs = <<>> THEN <<>> ELSE Head(dfs) \o concat(Tail(dfs))

Processing == Msg("tqdm", <<"processing", gdf_points[row].idx, strftime_ym(current)>>)

\* size().getInfo() raises (line 126)
QuerySizeFails ==
    /\ AtWindow
    /\ queries' = Append(queries, Query)
    /\ exc' = "EEException"
    /\ log' = log \o <<Processing, Msg("error", <<"EEException", "size">>)>>
    /\ pc' = "done"
    /\ UNCHANGED <<readable, gdf, has_label_col, start, end, catalog, gdf_points, row,
                   ee_geoms, properties, tile, current, all_samples, output_file,
                   polygon, max_cells, small_polys>>

\* QueryNoImages leaving the window loop (break in place of continue)
QueryNoImages_break ==
    /\ AtWindow
    /\ Images(Query) = {}
    /\ queries' = Append(queries, Query)
    /\ log' = log \o <<Processing,
                       Msg("tqdm", <<"no images", gdf_points[row].idx, strftime_ym(current)>>)>>
    /\ current' = end
    /\ UNCHANGED <<readable, gdf, has_label_col, start, end, catalog, pc, gdf_points, row,
                   ee_geoms, properties, tile, all_samples, output_file, exc,
                   polygon, max_cells, small_polys>>

\* QueryNoImages without line 128: continue with current left as it is
QueryNoImages_stuck ==
    /\ AtWindow
    /\ Images(Query) = {}
    /\ queries' = Append(queries, Query)
    /\ log' = log \o <<Processing,
                       Msg("tqdm", <<"no images", gdf_points[row].idx, strftime_ym(current)>>)>>
    /\ UNCHANGED <<readable, gdf, has_label_col, start, end, catalog, pc, gdf_points, row,
                   ee_geoms, properties, tile, current, all_samples, output_file, exc,
                   polygon, max_cells, small_polys>>

\* no image in the window (lines 126-129)
QueryNoImages ==
    /\ AtWindow
    /\ Images(Query) = {}
    /\ queries' = Append(queries, Query)
    /\ log' = log \o <<Processing,
                       Msg("tqdm", <<"no images", gdf_points[row].idx, strftime_ym(current)>>)>>
    /\ current' = relativedelta_months(current)
    /\ UNCHANGED <<readable, gdf, has_label_col, start, end, catalog, pc, gdf_points, row,
                   ee_geoms, properties, tile, all_samples, output_file, exc,
                   polygon, max_cells, small_polys>>

\* QuerySampleFails with the export run on the way out (as in a finally)
QuerySampleFails_flush ==
    /\ AtWindow
    /\ Images(Query) # {}
    /\ queries' = Append(queries, Query)
    /\ exc' = "EEException"
    /\ log' = log \o <<Processing, Msg("error", <<"EEException", "sample">>)>>
    /\ output_file' = IF all_samples # <<>>
                      THEN [written |-> TRUE, rows |-> concat(all_samples)]
                      ELSE output_file
    /\ pc' = "done"
    /\ UNCHANGED <<readable, gdf, has_label_col, start, end, catalog, gdf_points, row,
                   ee_geoms, properties, tile, current, all_samples,
                   polygon, max_cells, small_polys>>

\* bandNames().getInfo(), sampleRegions or ee_to_df raises (lines 132-136)
QuerySampleFails ==
    /\ AtWindow
    /\ Images(Query) # {}
    /\ queries' = Append(queries, Query)
    /\ exc' = "EEException"
    /\ log' = log \o <<Processing, Msg("error", <<"EEException", "sample">>)>>
    /\ pc' = "done"
    /\ UNCHANGED <<readable, gdf, has_label_col, start, end, catalog, gdf_points, row,
                   ee_geoms, properties, tile, current, all_samples, output_file,
                   polygon, max_cells, small_polys>>

\* the composite is sampled and the batch appended (lines 131-141)
QuerySample ==
    /\ AtWindow
    /\ Images(Query) # {}
    /\ queries' = Append(queries, Query)
    /\ log' = Append(log, Processing)
    /\ all_samples' = Append(all_samples, SampleDf(Query, ee_geoms[tile]))
    /\ current' = relativedelta_months(current)
    /\ UNCHANGED <<readable, gdf, has_label_col, start, end, catalog, pc, gdf_points, row,
                   ee_geoms, properties, tile, output_file, exc, polygon, max_cells,
                   small_polys>>

\* the while loop of a tile ends (line 111): the next geom of ee_geoms, if
\* there is one, starts again from current = start (lines 107-109)
NextTile ==
    /\ pc = "window"
    /\ tile <= Len(ee_geoms)
    /\ ~DateLT(current, end)
    /\ tile' = tile + 1
    /\ current' = IF tile < Len(ee_geoms) THEN start ELSE current
    /\ UNCHANGED <<readable, gdf, has_label_col, start, end, catalog, pc, gdf_points, row,
                   ee_geoms, properties, all_samples, queries, log, output_file, exc,
                   polygon, max_cells, small_polys>>

\* ee_geoms is exhausted: next row of gdf_points (line 91)
NextRow ==
    /\ pc = "window"
    /\ tile > Len(ee_geoms)
    /\ row' = row + 1
    /\ pc' = "rows"
    /\ UNCHANGED <<readable, gdf, has_label_col, start, end, catalog, gdf_points,
                   ee_geoms, properties, tile, current, all_samples, queries, log,
                   output_file, exc, polygon, max_cells, small_polys>>

(***************************************************************************)
(* The export (lines 143-148).                                             *)
(***************************************************************************)
\* if all_samples: the list of batches is not empty
ExportCsv ==
    /\ pc = "rows"
    /\ row > Len(gdf_points)
    /\ all_samples # <<>>
    /\ output_file' = [written |-> TRUE, rows |-> concat(all_samples)]
    /\ log' = Append(log, Msg("success", "export completed"))
    /\ pc' = "done"
    /\ UNCHANGED <<readable, gdf, has_label_col, start, end, catalog, gdf_points, row,
                   ee_geoms, properties, tile, current, all_samples, queries, exc,
                   polygon, max_cells, small_polys>>

ExportNothing ==
    /\ pc = "rows"
    /\ row > Len(gdf_points)
    /\ all_samples = <<>>
    /\ log' = Append(log, Msg("warning", "no data sampled"))
    /\ pc' = "done"
    /\ UNCHANGED <<readable, gdf, has_label_col, start, end, catalog, gdf_points, row,
                   ee_geoms, properties, tile, current, all_samples, queries,
                   output_file, exc, polygon, max_cells, small_polys>>

Next ==
    \/ LoadReadError
    \/ LoadEmpty
    \/ LoadOk
    \/ RowPoint
    \/ RowPolygon
    \/ RowUnsupported
    \/ QuerySizeFails
    \/ QueryNoImages
    \/ QuerySampleFails
    \/ QuerySample
    \/ NextTile
    \/ NextRow
    \/ ExportCsv
    \/ ExportNothing

Spec == Init /\ [][Next]_vars

(***************************************************************************)
(* A run of split_polygon_grid alone, on any polygon and any max_cells.    *)
(***************************************************************************)
InitSplit ==
    /\ polygon \in Shapes
    /\ max_cells \in 1 .. MaxCells
    /\ small_polys = <<>>
    /\ pc = "split"
    /\ readable = FALSE
    /\ has_label_col = FALSE
    /\ gdf = <<>>
    /\ start = <<2022, 1, 1>>
    /\ end = <<2022, 1, 1>>
    /\ catalog = {}
    /\ gdf_points = <<>>
    /\ row = 0
    /\ ee_geoms = <<>>
    /\ properties = {}
    /\ tile = 0
    /\ current = start
    /\ all_samples = <<>>
    /\ queries = <<>>
    /\ log = <<>>
    /\ output_file = NoFile
    /\ exc = "None"

SplitRun ==
    /\ pc = "split"
    /\ small_polys' = split_polygon_grid(polygon, max_cells)
    /\ pc' = "split_done"
    /\ UNCHANGED <<readable, gdf, has_label_col, start, end, catalog, gdf_points, row,
                   ee_geoms, properties, tile, current, all_samples, queries, log,
                   output_file, exc, polygon, max_cells>>

NextSplit == SplitRun

SpecSplit == InitSplit /\ [][NextSplit]_vars

(***************************************************************************)
(* Vocabulary of the properties: the calendar of 2021 and 2022 written     *)
(* out as a table, and what a finished run is expected to have queried.    *)
(***************************************************************************)
MonthLen == <<31, 28, 31, 30, 31, 30, 31, 31, 30, 31, 30, 31>>

RECURSIVE DaysBeforeMonth(_)
DaysBeforeMonth(m) == IF m = 1 THEN 0 ELSE MonthLen[m - 1] + DaysBeforeMonth(m - 1)

\* days since 2020-12-31
DayNumber(d) == (d[1] - 2021) * 365 + DaysBeforeMonth(d[2]) + d[3]

Before(a, b) == DayNumber(a) < DayNumber(b)

OneMonthAfter(d) ==
    LET y == IF d[2] = 12 THEN d[1] + 1 ELSE d[1]
        m == IF d[2] = 12 THEN 1 ELSE d[2] + 1
    IN  <<y, m, IF d[3] > MonthLen[m] THEN MonthLen[m] ELSE d[3]>>

DayBefore(d) ==
    IF d[3] > 1 THEN <<d[1], d[2], d[3] - 1>>
    ELSE IF d[2] > 1 THEN <<d[1], d[2] - 1, MonthLen[d[2] - 1]>>
    ELSE <<d[1] - 1, 12, 31>>

Dates2122 == {d \in {2021, 2022} \X (1 .. 12) \X (1 .. 31) : d[3] <= MonthLen[d[2]]}

\* number of windows of one tile: starts a month apart from s, while before e
RECURSIVE NumWindows(_, _)
NumWindows(s, e) == IF Before(s, e) THEN 1 + NumWindows(OneMonthAfter(s), e) ELSE 0

Last(sq) == sq[Len(sq)]

Finished == pc = "done" /\ exc = "None"

Supported(r) == r.geom_type \in {"Point", "Polygon"}

NumTiles(r) ==
    IF r.geom_type = "Point" THEN 1
    ELSE Len(split_polygon_grid(r.geometry, max_cells_default))

QueriesOfTile(i, t) == {k \in 1 .. Len(queries) : queries[k].idx = i /\ queries[k].tile = t}

QueriesOf(i) == {k \in 1 .. Len(queries) : queries[k].idx = i}

LabelledMode == has_label_col /\ \E i \in 1 .. Len(gdf) : gdf[i].label # NULL

\* the records a finished run must have gone through
Selected(i) == IF LabelledMode THEN gdf[i].label # NULL ELSE TRUE

\* a finished run has queried every window of every tile of record i
FullyQueried(i) ==
    \A t \in 1 .. NumTiles(gdf[i]) :
        Cardinality(QueriesOfTile(i - 1, t)) = NumWindows(start, end)

NewLog == SubSeq(log', Len(log) + 1, Len(log'))

Logged(sq, level) == \E k \in 1 .. Len(sq) : sq[k].level = level

(***************************************************************************)
(* C1: the windows of a tile start at start, one month apart, each ending  *)
(* the day before the next month's same day, or at end when that is later  *)
(* than end; for 2022-01-15 .. 2022-04-01 the starts are 01-15, 02-15 and  *)
(* 03-15.                                                                  *)
(***************************************************************************)
C1_WindowSequence ==
    /\ \A k \in 1 .. Len(queries) :
          LET q == queries[k]
              first == k = 1 \/ queries[k - 1].idx # q.idx \/ queries[k - 1].tile # q.tile
              full == DayBefore(OneMonthAfter(q.month_start))
          IN  /\ first => q.month_start = start
              /\ ~first => q.month_start = OneMonthAfter(queries[k - 1].month_start)
              /\ q.month_end = IF Before(end, full) THEN end ELSE full
    /\ (Finished /\ start = <<2022, 1, 15>> /\ end = <<2022, 4, 1>> /\ Len(gdf) = 1)
          => /\ [k \in 1 .. Len(queries) |-> queries[k].month_start]
                   = <<<<2022, 1, 15>>, <<2022, 2, 15>>, <<2022, 3, 15>>>>
             /\ [k \in 1 .. Len(queries) |-> queries[k].month_end]
                   = <<<<2022, 2, 14>>, <<2022, 3, 14>>, <<2022, 4, 1>>>>

C1_Witness ==
    /\ Finished
    /\ start = <<2022, 1, 15>>
    /\ end = <<2022, 4, 1>>
    /\ Len(queries) = 3

(***************************************************************************)
(* C2: the windows of a tile, read as the half-open intervals given to the *)
(* date filter, partition [start, end): every date of the range lies in    *)
(* exactly one of them.                                                    *)
(***************************************************************************)
C2_WindowsPartitionRange ==
    Finished =>
        \A g \in {<<queries[k].idx, queries[k].tile>> : k \in 1 .. Len(queries)} :
            \A d \in Dates2122 :
                (~Before(d, start) /\ Before(d, end)) =>
                    Cardinality({k \in QueriesOfTile(g[1], g[2]) :
                                    /\ ~Before(d, queries[k].month_start)
                                    /\ Before(d, queries[k].month_end)}) = 1

(***************************************************************************)
(* C3, as claimed: when a remote step fails after batches have been        *)
(* accumulated, the batches accumulated so far are written to the output.  *)
(***************************************************************************)
C3_PartialResultsWritten ==
    (pc = "done" /\ exc = "EEException" /\ all_samples # <<>>)
        => output_file = [written |-> TRUE, rows |-> concat(all_samples)]

(***************************************************************************)
(* C3, amended: when a remote step fails, the error is caught and logged,  *)
(* the function returns, and no output file is written, whether or not     *)
(* batches had been accumulated.                                           *)
(***************************************************************************)
C3_FailureWritesNothing ==
    /\ exc = "EEException" => pc = "done"
    /\ (pc = "done" /\ exc = "EEException")
          => /\ output_file = NoFile
             /\ Last(log).level = "error"
             /\ queries # <<>>

C3_Witness ==
    /\ pc = "done"
    /\ exc = "EEException"
    /\ Len(all_samples) >= 2
    /\ Len(concat(all_samples)) >= 2

(***************************************************************************)
(* C4: a run that sampled zero rows in total writes no file and emits a    *)
(* warning; a file without rows is never written.                          *)
(***************************************************************************)
C4_NoEmptyFile ==
    /\ (Finished /\ Len(concat(all_samples)) = 0)
          => ~output_file.written /\ Logged(log, "warning")
    /\ output_file.written => output_file.rows # <<>>

(***************************************************************************)
(* C5: a window without images appends no batch and is no error: the loop  *)
(* moves to the next window of the same tile, and a run that finishes has  *)
(* queried every window of every tile of every supported record.           *)
(***************************************************************************)
C5_NoImagesStep ==
    (\E k \in 1 .. Len(NewLog) : NewLog[k].level = "tqdm" /\ NewLog[k].text[1] = "no images")
        => /\ Images(Last(queries')) = {}
           /\ all_samples' = all_samples
           /\ exc' = "None"
           /\ pc' = "window"
           /\ row' = row
           /\ tile' = tile
           /\ current' = OneMonthAfter(current)

C5_AllQueried ==
    /\ \A k \in 1 .. Len(queries) :
          (Images(queries[k]) = {} /\ (k < Len(queries) \/ exc = "None"))
              => \E m \in 1 .. Len(log) :
                    log[m] = Msg("tqdm", <<"no images", queries[k].idx,
                                           <<queries[k].month_start[1], queries[k].month_start[2]>>>>)
    /\ Finished =>
          \A i \in 1 .. Len(gdf) : (Selected(i) /\ Supported(gdf[i])) => FullyQueried(i)
    /\ Len(all_samples) = Cardinality({k \in 1 .. Len(queries) :
                                          Images(queries[k]) # {} /\ (k < Len(queries) \/ exc = "None")})

C5_EmptyWindowSkipped == []C5_AllQueried /\ [][C5_NoImagesStep]_vars

C5_Witness ==
    /\ Finished
    /\ Len(gdf) = 2
    /\ \E k \in 1 .. Len(queries) - 1 :
          /\ Images(queries[k]) = {}
          /\ Images(queries[k + 1]) # {}
          /\ queries[k + 1].idx = queries[k].idx
          /\ queries[k + 1].tile = queries[k].tile
    /\ \E k, m \in 1 .. Len(queries) :
          /\ k < m
          /\ Images(queries[k]) = {}
          /\ queries[m].idx # queries[k].idx

(***************************************************************************)
(* C6: a record that is neither a Point nor a Polygon is skipped with a    *)
(* warning: no tile, no query and no row comes from it, and the records    *)
(* after it are still processed.                                           *)
(***************************************************************************)
C6_SkipStep ==
    (pc = "rows" /\ row <= Len(gdf_points) /\ ~Supported(gdf_points[row].rec))
        => /\ row' = row + 1
           /\ pc' = "rows"
           /\ exc' = "None"
           /\ queries' = queries
           /\ all_samples' = all_samples
           /\ output_file' = output_file
           /\ NewLog = <<Msg("warning", <<"not supported", gdf_points[row].idx>>)>>

C6_NothingFromUnsupported ==
    /\ \A k \in 1 .. Len(queries) : Supported(gdf[queries[k].idx + 1])
    /\ \A k \in 1 .. Len(output_file.rows) : Supported(gdf[output_file.rows[k].geometry_idx + 1])
    /\ Finished =>
          \A i, j \in 1 .. Len(gdf) :
              (i < j /\ Selected(i) /\ ~Supported(gdf[i]) /\ Selected(j) /\ Supported(gdf[j]))
                  => FullyQueried(j)

C6_UnsupportedSkipped == []C6_NothingFromUnsupported /\ [][C6_SkipStep]_vars

C6_Witness ==
    /\ Finished
    /\ Len(gdf) = 2
    /\ gdf[1].geom_type = "MultiPolygon"
    /\ Supported(gdf[2])
    /\ Logged(log, "warning")
    /\ QueriesOf(1) # {}
    /\ output_file.rows # <<>>

(***************************************************************************)
(* C7: an input that cannot be read, or holds no record, makes the loader  *)
(* raise (read error, empty-input error); the run ends with no query       *)
(* issued and no output written.                                           *)
(***************************************************************************)
C7_LoaderAborts ==
    (~readable \/ gdf = <<>>)
        => /\ queries = <<>>
           /\ output_file = NoFile
           /\ pc \in {"start", "done"}
           /\ pc = "done" =>
                 /\ exc = IF ~readable THEN "RuntimeError" ELSE "ValueError"
                 /\ log = <<Msg("error", exc)>>

C7_Witness ==
    /\ pc = "done"
    /\ readable
    /\ gdf = <<>>
    /\ exc = "ValueError"

(***************************************************************************)
(* C8: the window loop terminates: a query is issued only while the window *)
(* start is before end, every query that does not fail moves the window    *)
(* start one month on (skip path and sampling path alike), which leaves    *)
(* one window less to go, a tile is never queried more often than it has   *)
(* windows, and no query is issued when start >= end.                      *)
(***************************************************************************)
C8_Advance ==
    queries' # queries
        => /\ Before(current, end)
           /\ exc' = "None" =>
                 /\ current' = OneMonthAfter(current)
                 /\ Before(current, current')
                 /\ NumWindows(current', end) = NumWindows(current, end) - 1

C8_Bounded ==
    /\ ~Before(start, end) => queries = <<>>
    /\ \A k \in 1 .. Len(queries) :
          Cardinality(QueriesOfTile(queries[k].idx, queries[k].tile)) <= NumWindows(start, end)

C8_WindowLoopTerminates == []C8_Bounded /\ [][C8_Advance]_vars

C8_Witness ==
    /\ Finished
    /\ NumWindows(start, end) >= 3
    /\ \E k \in 1 .. Len(queries) : Images(queries[k]) = {}
    /\ \E k \in 1 .. Len(queries) : Images(queries[k]) # {}

(***************************************************************************)
(* C9, as claimed: split_polygon_grid with max_cells = n returns at most   *)
(* n * n tiles.                                                            *)
(***************************************************************************)
C9_AtMostNSquaredTiles ==
    pc = "split_done" => Len(small_polys) <= max_cells * max_cells

(***************************************************************************)
(* C9, amended: each of the n * n cells contributes one tile per fragment  *)
(* of its intersection when that is a Polygon or a MultiPolygon, and none  *)
(* otherwise; the total is at most n * n when no intersection is a         *)
(* MultiPolygon.                                                           *)
(***************************************************************************)
CellSquares(i, j) ==
    LET c == Cell(polygon, max_cells, i, j)
    IN  {sq \in Refine(polygon, max_cells) :
            c.x0 <= sq[1] /\ sq[1] < c.x1 /\ c.y0 <= sq[2] /\ sq[2] < c.y1}

CellType(i, j) == geom_type(intersection(Refine(polygon, max_cells), Cell(polygon, max_cells, i, j)))

\* the sets of squares ts are the connected fragments of S: they cover S,
\* each is connected, and no two of them share an edge
FragmentsOf(ts, S) ==
    /\ UNION ts = S
    /\ \A t \in ts : t # {} /\ Flood({CHOOSE sq \in t : TRUE}, t) = t
    /\ \A t, u \in ts : t # u => \A sq \in t : Neighbours(sq) \cap u = {}

C9_TilesPerFragment ==
    pc = "split_done" =>
        LET cells == (0 .. max_cells - 1) \X (0 .. max_cells - 1)
            squares == [c \in cells |-> CellSquares(c[1], c[2])]
            type == [c \in cells |-> CellType(c[1], c[2])]
            tiles == {small_polys[k] : k \in 1 .. Len(small_polys)}
        IN  /\ \A c \in cells :
                  LET here == {t \in tiles : t \subseteq squares[c]}
                  IN  /\ type[c] \in {"Polygon", "MultiPolygon"} => FragmentsOf(here, squares[c])
                      /\ type[c] = "Polygon" => Cardinality(here) = 1
                      /\ type[c] \notin {"Polygon", "MultiPolygon"} => here = {}
            /\ Cardinality(tiles) = Len(small_polys)
            /\ \A t \in tiles : t # {} /\ \E c \in cells : t \subseteq squares[c]
            /\ (\A c \in cells : type[c] # "MultiPolygon")
                  => Len(small_polys) <= max_cells * max_cells

C9_Witness ==
    /\ pc = "split_done"
    /\ Len(small_polys) > max_cells * max_cells
    /\ \E i, j \in 0 .. max_cells - 1 : CellType(i, j) = "MultiPolygon"

(***************************************************************************)
(* C10: without a label column, or with every label null, every record is  *)
(* processed and no query carries a label; otherwise exactly the records   *)
(* with a label are processed, each query carrying its record's label.     *)
(***************************************************************************)
C10_LabelModes ==
    (pc \in {"rows", "window", "done"} /\ exc \notin {"RuntimeError", "ValueError"})
        => /\ {gdf_points[k].idx : k \in 1 .. Len(gdf_points)}
                 = {i - 1 : i \in {m \in 1 .. Len(gdf) : Selected(m)}}
           /\ \A k \in 1 .. Len(queries) :
                 /\ Selected(queries[k].idx + 1)
                 /\ queries[k].properties =
                       IF LabelledMode THEN {<<"landcover", gdf[queries[k].idx + 1].label>>} ELSE {}
           /\ \A k \in 1 .. Len(all_samples) : \A m \in 1 .. Len(all_samples[k]) :
                 all_samples[k][m].properties =
                       IF LabelledMode
                       THEN {<<"landcover", gdf[all_samples[k][m].geometry_idx + 1].label>>}
                       ELSE {}
           /\ Finished =>
                 \A i \in 1 .. Len(gdf) :
                     (Selected(i) /\ Supported(gdf[i]) /\ Before(start, end)) => QueriesOf(i - 1) # {}

C10_Witness ==
    /\ Finished
    /\ Len(gdf) = 2
    /\ gdf[1].label = NULL
    /\ gdf[2].label = "water"
    /\ Supported(gdf[1])
    /\ QueriesOf(0) = {}
    /\ \E k \in 1 .. Len(output_file.rows) :
          output_file.rows[k].properties = {<<"landcover", "water">>}

====
